---- MODULE Spec2Model ----
(***************************************************************************)
(* A model of the experiment runner of TerpeneMiner:                       *)
(*   - BaseConfig.load              (models/ifaces/config_baseclasses.py)  *)
(*   - FeaturesSklearnModel         (models/ifaces/features_sklearn_model) *)
(*   - run_experiment               (experiments_orchestration)            *)
(* Tables (pandas data frames) that hold one row per id are functions from *)
(* ids to label sets; the raw table tps_df is a set of row records.        *)
(* Floats are ratios <<numerator, denominator>>, and every float operation *)
(* of the code rounds its exact result to the nearest float.               *)
(* Names (class names, parameter keys) are Python strings; where the code  *)
(* looks inside them (in, replace) they are tuples of characters.          *)
(***************************************************************************)
EXTENDS Integers, Sequences, FiniteSets, TLC

VARIABLES
    \* ---- BaseConfig.load ----
    primary_doc,        \* the parsed document at path_to_config
    included_file,      \* the parsed document at the included path, or NoFile
    configs_dict,       \* the dictionary load builds and returns
    load_pc,            \* "idle" | "start" | "returned" | "raised"
    \* ---- the model object (FeaturesSklearnModel) and its config ----
    per_class_optimization,     \* self.per_class_optimization
    max_train_negs_proportion,  \* config.max_train_negs_proportion
    class_names,                \* config.class_names
    model_params,               \* the parameter dictionary, as a list of keys
    features_df,                \* the ids that self.features_df has a row for
    classifier,                 \* self.classifier
    class_2_classifier,         \* self.class_2_classifier
    \* ---- the last fit_core call ----
    fc_train_df,        \* its train_df argument (id -> label set)
    fc_class_name,      \* its class_name argument
    fc_fit_df,          \* its local train_df after the imbalance correction
    fc_first_fit,       \* how the first classifier.fit attempt ended
    fc_fallback,        \* whether the MultiOutputClassifier fallback was taken
    fc_pc,              \* "idle" | "start" | "returned" | "raised"
    \* ---- run_experiment ----
    tps_df,             \* the dataset: rows [id, label, fold, ignore]
    save_trained_model, \* config.save_trained_model
    pc,                 \* "idle" | "select" | "fit" | "save" | "score" | "persist" | "done" | "error"
    fold_pos,           \* the position of the loop in get_folds(...)
    fold,               \* experiment_info.fold
    trn_df,             \* the aggregated training table of the fold (id -> label set)
    test_df,            \* the aggregated test table of the fold
    val_proba_np,       \* the matrix predict_proba returned (id -> row of cells)
    artifacts,          \* the files fold_<f>_results.pkl under output_root
    saved_models,       \* the files model_fold_<f>.pkl under output_root
    log                 \* the steps executed so far: <<fold, step, outcome>>

loadVars == <<primary_doc, included_file, configs_dict, load_pc>>
modelVars == <<per_class_optimization, max_train_negs_proportion, class_names,
               model_params, features_df, classifier, class_2_classifier>>
fcVars == <<fc_train_df, fc_class_name, fc_fit_df, fc_first_fit, fc_fallback, fc_pc>>
runVars == <<tps_df, save_trained_model, pc, fold_pos, fold, trn_df, test_df,
             val_proba_np, artifacts, saved_models, log>>
vars == <<loadVars, modelVars, fcVars, runVars>>

\* The empty dictionary / the empty table.
EmptyFn == [x \in {} |-> x]

\* self.classifier before any fit (the attribute is only declared in __init__).
NoClassifier == [kind |-> "unset", classes |-> <<>>, fit_X |-> {}]

(***************************************************************************)
(* BaseConfig.load                                                         *)
(***************************************************************************)
\* Keys and values that the bounded documents draw from.
MaxVal == 2
DocKeys == {"include", "a", "b"}
DocVals == 1..MaxVal
Docs == UNION {[ks -> DocVals] : ks \in SUBSET DocKeys}
\* The included path names no file (open() raises FileNotFoundError).
NoFile == [k \in {"<no file>"} |-> 0]

\* dict.pop(key): the dictionary without the key.
Pop(d, key) == [k \in (DOMAIN d) \ {key} |-> d[k]]

\* A faulty variant of Update: update with every key of the other dictionary.
UpdateAll(d, other) ==
    [k \in (DOMAIN d) \cup (DOMAIN other) |-> IF k \in DOMAIN other THEN other[k] ELSE d[k]]

\* configs_dict.update({key: val for key, val in included_data.items()
\*                      if key not in configs_dict})
Update(d, other) ==
    LET filtered == [k \in {key \in DOMAIN other : key \notin DOMAIN d} |-> other[k]]
    IN  [k \in (DOMAIN d) \cup (DOMAIN filtered) |->
            IF k \in DOMAIN filtered THEN filtered[k] ELSE d[k]]

InitLoadIdle ==
    /\ primary_doc = EmptyFn
    /\ included_file = NoFile
    /\ configs_dict = EmptyFn
    /\ load_pc = "idle"

InitFcIdle ==
    /\ fc_train_df = EmptyFn
    /\ fc_class_name = "None"
    /\ fc_fit_df = EmptyFn
    /\ fc_first_fit = "none"
    /\ fc_fallback = FALSE
    /\ fc_pc = "idle"

\* experiment_info.fold before the loop sets it ("all_folds").
all_folds == -1

InitRunIdle ==
    /\ tps_df = {}
    /\ save_trained_model = FALSE
    /\ pc = "idle"
    /\ fold_pos = 1
    /\ fold = all_folds
    /\ trn_df = EmptyFn
    /\ test_df = EmptyFn
    /\ val_proba_np = EmptyFn
    /\ artifacts = EmptyFn
    /\ saved_models = {}
    /\ log = <<>>

InitModelIdle ==
    /\ per_class_optimization = FALSE
    /\ max_train_negs_proportion = <<1, 2>>
    /\ class_names = <<>>
    /\ model_params = <<>>
    /\ features_df = {}
    /\ classifier = NoClassifier
    /\ class_2_classifier = EmptyFn

InitLoad ==
    /\ primary_doc \in Docs
    /\ included_file \in Docs \cup {NoFile}
    /\ configs_dict = EmptyFn
    /\ load_pc = "start"
    /\ InitModelIdle
    /\ InitFcIdle
    /\ InitRunIdle

\* BaseConfig.load when the document has no include key, or the included
\* file opens: the merged dictionary is returned.
Load ==
    /\ load_pc = "start"
    /\ ("include" \in DOMAIN primary_doc) => (included_file # NoFile)
    /\ configs_dict' =
          IF "include" \in DOMAIN primary_doc
          THEN Update(Pop(primary_doc, "include"), included_file)
          ELSE primary_doc
    /\ load_pc' = "returned"
    /\ UNCHANGED <<primary_doc, included_file, modelVars, fcVars, runVars>>

\* BaseConfig.load when open() of the included path raises: nothing is returned.
LoadMissingInclude ==
    /\ load_pc = "start"
    /\ "include" \in DOMAIN primary_doc
    /\ included_file = NoFile
    /\ load_pc' = "raised"
    /\ UNCHANGED <<primary_doc, included_file, configs_dict, modelVars, fcVars, runVars>>

NextLoad == Load \/ LoadMissingInclude

SpecLoad == InitLoad /\ [][NextLoad]_vars

\* C5: when the primary document has an include key and the included document
\* is read, the result maps every key of the primary document other than
\* include to the primary value (so the primary wins on a key of both), and
\* every key found only in the included document to the included value.
C5_IncludeMerge ==
    (load_pc = "returned" /\ "include" \in DOMAIN primary_doc) =>
        /\ \A k \in (DOMAIN primary_doc) \ {"include"} :
              k \in DOMAIN configs_dict /\ configs_dict[k] = primary_doc[k]
        /\ \A k \in (DOMAIN included_file) \ (DOMAIN primary_doc) :
              k \in DOMAIN configs_dict /\ configs_dict[k] = included_file[k]

\* The spec's example {a:1} + {a:2, b:3} -> {a:1, b:3}, with a conflicting key.
C5_Witness ==
    /\ load_pc = "returned"
    /\ primary_doc = [k \in {"include", "a"} |-> 1]
    /\ included_file = [k \in {"a", "b"} |-> 2]
    /\ configs_dict = [k \in {"a", "b"} |-> IF k = "a" THEN 1 ELSE 2]

(***************************************************************************)
(* Python strings, where the code looks inside them                        *)
(***************************************************************************)
\* The characters of the configured class names.
Spell(name) == IF name = "A" THEN <<"A">> ELSE IF name = "B" THEN <<"B">> ELSE <<"?">>

\* s.startswith(pre)
StartsWith(s, pre) == Len(s) >= Len(pre) /\ SubSeq(s, 1, Len(pre)) = pre

\* sub in s
Contains(sub, s) ==
    \E i \in 1..(Len(s) - Len(sub) + 1) : SubSeq(s, i, i + Len(sub) - 1) = sub

\* s.replace(old, ""): every occurrence of old, found left to right, is removed.
RECURSIVE StrRemove(_, _)
StrRemove(s, old) ==
    IF Len(s) < Len(old) THEN s
    ELSE IF SubSeq(s, 1, Len(old)) = old
         THEN StrRemove(SubSeq(s, Len(old) + 1, Len(s)), old)
         ELSE <<Head(s)>> \o StrRemove(Tail(s), old)

(***************************************************************************)
(* Rationals <<n, d>> with d > 0, and int()                                *)
(***************************************************************************)
RatSub(a, b) == <<a[1] * b[2] - b[1] * a[2], a[2] * b[2]>>
RatMul(a, b) == <<a[1] * b[1], a[2] * b[2]>>
\* a / b for b > 0
RatDiv(a, b) == <<a[1] * b[2], a[2] * b[1]>>
RatGT(a, b) == a[1] * b[2] > b[1] * a[2]
\* int(x): truncation toward zero
IntTrunc(r) == IF r[1] >= 0 THEN r[1] \div r[2] ELSE -((-r[1]) \div r[2])

(***************************************************************************)
(* Python floats: binary floating point, every operation rounded to the    *)
(* nearest value of FloatBits significant bits, ties to the even mantissa  *)
(* (53 bits in CPython; the exponent range plays no part here)             *)
(***************************************************************************)
FloatBits == 5

Pow2(k) == 2^k

\* A ratio with a power of two below, in lowest terms.
RECURSIVE Halve(_)
Halve(r) ==
    IF r[1] = 0 THEN <<0, 1>>
    ELSE IF r[1] % 2 = 0 /\ r[2] % 2 = 0 THEN Halve(<<r[1] \div 2, r[2] \div 2>>)
    ELSE r

\* n/d > 0 rounded: scaled by a/b, a power of two, into [2^(bits-1), 2^bits),
\* rounded there to an integer mantissa, half to even, and scaled back.
RECURSIVE FlScaled(_, _, _, _)
FlScaled(n, d, a, b) ==
    IF n * a >= d * b * Pow2(FloatBits) THEN FlScaled(n, d, a, 2 * b)
    ELSE IF n * a < d * b * Pow2(FloatBits - 1) THEN FlScaled(n, d, 2 * a, b)
    ELSE LET q == (n * a) \div (d * b)
             rem == (n * a) % (d * b)
             m == IF 2 * rem > d * b \/ (2 * rem = d * b /\ q % 2 = 1) THEN q + 1 ELSE q
         IN  Halve(<<m * b, a>>)

\* The float nearest to the exact value x.
FlOf(x) ==
    IF x[1] = 0 THEN <<0, 1>>
    ELSE IF x[1] > 0 THEN FlScaled(x[1], x[2], 1, 1)
    ELSE LET v == FlScaled(-x[1], x[2], 1, 1) IN <<-v[1], v[2]>>

\* The result of one float operation whose exact value is r (r is evaluated
\* once, then rounded).
Fl(r) == CHOOSE v \in {FlOf(x) : x \in {r}} : TRUE

(***************************************************************************)
(* FeaturesSklearnModel.fit_core                                           *)
(***************************************************************************)
\* config.neg_val
neg_val == "Unknown"

\* A table restricted to some of its rows.
Rows(df, ids) == [i \in (DOMAIN df) \cap ids |-> df[i]]

\* train_df_neg_all: the rows whose label set contains neg_val
NegIds(df) == {i \in DOMAIN df : neg_val \in df[i]}
\* train_df_pos: the rows whose label set does not contain neg_val
PosIds(df) == {i \in DOMAIN df : neg_val \notin df[i]}

\* negs_proportion = len(train_df_neg_all) / len(train_df)
NegsProportion(df) == Fl(<<Cardinality(NegIds(df)), Cardinality(DOMAIN df)>>)

\* positive_count = train_df[id_col_name].nunique() * (1 - negs_proportion)
PositiveCount(df) ==
    Fl(RatMul(<<Cardinality(DOMAIN df), 1>>, Fl(RatSub(<<1, 1>>, NegsProportion(df)))))

\* required_negs_count = positive_count / (1 - max_train_negs_proportion) - positive_count
RequiredNegsCount(df, p) ==
    LET positive_count == PositiveCount(df)
    IN  Fl(RatSub(Fl(RatDiv(positive_count, Fl(RatSub(<<1, 1>>, p)))), positive_count))

\* negs_proportion > self.config.max_train_negs_proportion
NeedsCorrection(df, p) == RatGT(NegsProportion(df), p)

\* train_df_neg_all.sample(int(required_negs_count)): the samples it can draw,
\* without replacement; none when the size exceeds the rows there are
\* (sample raises ValueError) .
Samples(df, p) ==
    IF NeedsCorrection(df, p)
    THEN LET size == IntTrunc(RequiredNegsCount(df, p))
             negs == NegIds(df)
         IN  IF size > Cardinality(negs) THEN {}
             ELSE {s \in SUBSET negs : Cardinality(s) = size}
    ELSE {{}}

\* train_df after the correction: pd.concat((train_df_pos, train_df_neg)), whose
\* shuffle (.sample(frac=1.0)) permutes the rows and leaves the row set alone.
Corrected(df, p, sample) ==
    IF NeedsCorrection(df, p) THEN Rows(df, PosIds(df) \cup sample) ELSE df

\* train_df.merge(self.features_df, on=id_col_name): an inner join.
Merge(df, features) == Rows(df, features)

\* How a classifier.fit call can end.  np.stack raises ValueError on an empty
\* list of embeddings; otherwise the classifier decides.
FirstFitOutcomes(train_data) ==
    IF DOMAIN train_data = {} THEN {"other_value_error"}
    ELSE {"ok", "multi_output_rejection", "other_value_error", "other_error"}
RefitOutcomes(train_data) == IF DOMAIN train_data = {} THEN {"error"} ELSE {"ok", "error"}

\* except ValueError: the outcomes that raise a ValueError.
IsValueError(outcome) == outcome \in {"multi_output_rejection", "other_value_error"}

\* model_params = {param_name.replace(f"{class_name}_", ""): param_val ...}: each
\* stripped name maps to the value of the last key that strips to it (a value
\* is named by its key).
ModelParams(params, class_name) ==
    LET prefix == Spell(class_name) \o <<"_">>
        name(i) == StrRemove(params[i], prefix)
    IN  [n \in {name(i) : i \in DOMAIN params} |->
            params[CHOOSE i \in DOMAIN params :
                      /\ name(i) = n
                      /\ \A j \in DOMAIN params : name(j) = n => j <= i]]

\* Some key of the dictionary starts with the prefix of the class.
IsClassPrefixPresent(params, class_name) ==
    \E i \in DOMAIN params : StartsWith(params[i], Spell(class_name) \o <<"_">>)

\* is_class_specific_param_present: class_name in param_name, for some key
IsClassSpecificParamPresent(params, class_name) ==
    \E i \in DOMAIN params : Contains(Spell(class_name), params[i])

\* y_binary: the rows of train_data that are positive for class_name
YBinary(train_data, class_name) == {i \in DOMAIN train_data : class_name \in train_data[i]}

\* label_binarizer.classes_ of MultiLabelBinarizer(classes=class_names): the
\* classes it was given, in the order given.
BinarizerClasses(classes) == classes

\* The global branch of fit_core (per_class_optimization off).
FitGlobal(self, train_data, ch) ==
    LET first == ch.first
        caught == first # "ok" /\ IsValueError(first)
        raised == IF caught THEN ch.refit # "ok" ELSE first # "ok"
        fit_X == IF raised THEN {} ELSE DOMAIN train_data
        classes == BinarizerClasses(self.class_names)
        plain == [kind |-> "plain", classes |-> classes, fit_X |-> fit_X]
        wrapped == [kind |-> "multioutput", classes |-> classes, fit_X |-> fit_X]
    IN  [raised |-> raised,
         classifier |-> IF caught THEN wrapped ELSE plain,
         class_2_classifier |-> self.class_2_classifier,
         \* self.config.class_names = label_binarizer.classes_
         class_names |-> classes,
         first_fit |-> first,
         fallback |-> caught]

\* The per-class branch of fit_core.
FitPerClass(self, train_data, class_name, ch) ==
    LET y_binary == YBinary(train_data, class_name)
        fits == IsClassSpecificParamPresent(self.model_params, class_name) /\ y_binary # {}
        raised == fits /\ ch.first # "ok"
        fitted == [class |-> class_name,
                   params |-> ModelParams(self.model_params, class_name),
                   fit_X |-> DOMAIN train_data]
    IN  [raised |-> raised,
         classifier |-> self.classifier,
         class_2_classifier |->
            IF fits /\ ~raised
            THEN [c \in (DOMAIN self.class_2_classifier) \cup {class_name} |->
                     IF c = class_name THEN fitted ELSE self.class_2_classifier[c]]
            ELSE self.class_2_classifier,
         class_names |-> self.class_names,
         first_fit |-> IF fits THEN ch.first ELSE "none",
         fallback |-> FALSE]

\* The nondeterministic choices of one fit_core call: the sample drawn, and how
\* the first fit and the refit end.
Choices(self, train_df) ==
    IF DOMAIN train_df = {} THEN {[sample |-> {}, first |-> "ok", refit |-> "ok"]}
    ELSE LET p == self.max_train_negs_proportion IN
         IF Samples(train_df, p) = {} THEN {[sample |-> {}, first |-> "ok", refit |-> "ok"]}
         ELSE UNION { LET train_data == Merge(Corrected(train_df, p, s), self.features_df) IN
                        [sample : {s},
                         first : IF self.per_class_optimization
                                 THEN {"ok", "other_error"}
                                 ELSE FirstFitOutcomes(train_data),
                         refit : IF self.per_class_optimization
                                 THEN {"ok"}
                                 ELSE RefitOutcomes(train_data)]
                      : s \in Samples(train_df, p) }

\* fit_core(train_df, class_name) on the model object self, under the choices ch.
FitCore(self, train_df, class_name, ch) ==
    LET p == self.max_train_negs_proportion
        failed == [raised |-> TRUE,
                   fit_df |-> train_df,
                   classifier |-> self.classifier,
                   class_2_classifier |-> self.class_2_classifier,
                   class_names |-> self.class_names,
                   first_fit |-> "none",
                   fallback |-> FALSE]
    IN  IF DOMAIN train_df = {} THEN failed             \* ZeroDivisionError
        ELSE IF Samples(train_df, p) = {} THEN failed   \* sample: ValueError
        ELSE LET fit_df == Corrected(train_df, p, ch.sample)
                 train_data == Merge(fit_df, self.features_df)
                 branch == IF ~self.per_class_optimization
                           THEN FitGlobal(self, train_data, ch)
                           ELSE FitPerClass(self, train_data, class_name, ch)
             IN  [raised |-> branch.raised,
                  fit_df |-> fit_df,
                  classifier |-> branch.classifier,
                  class_2_classifier |-> branch.class_2_classifier,
                  class_names |-> branch.class_names,
                  first_fit |-> branch.first_fit,
                  fallback |-> branch.fallback]

\* The model object, as fit_core reads it.
Self ==
    [per_class_optimization |-> per_class_optimization,
     max_train_negs_proportion |-> max_train_negs_proportion,
     class_names |-> class_names,
     model_params |-> model_params,
     features_df |-> features_df,
     classifier |-> classifier,
     class_2_classifier |-> class_2_classifier]

\* One call of fit_core on the arguments fc_train_df, fc_class_name.
FitCoreCall ==
    /\ fc_pc = "start"
    /\ \E ch \in Choices(Self, fc_train_df) :
          \E r \in {FitCore(Self, fc_train_df, fc_class_name, ch)} :
          /\ fc_fit_df' = r.fit_df
          /\ classifier' = r.classifier
          /\ class_2_classifier' = r.class_2_classifier
          /\ class_names' = r.class_names
          /\ fc_first_fit' = r.first_fit
          /\ fc_fallback' = r.fallback
          /\ fc_pc' = IF r.raised THEN "raised" ELSE "returned"
    /\ UNCHANGED <<loadVars, per_class_optimization, max_train_negs_proportion,
                   model_params, features_df, fc_train_df, fc_class_name, runVars>>

NextFitCore == FitCoreCall

(***************************************************************************)
(* fit_core on its own: bounded training tables, thresholds, parameters    *)
(***************************************************************************)
MaxTrainRows == 4
MaxBinades == 2
MaxKeys == 1
MaxKeyLen == 3

\* The label sets of an aggregated row.
TrainLabelSets == (SUBSET {"A", "B", neg_val}) \ {{}}
\* An order on label sets; fit_core does not look at the ids themselves, so the
\* bounded tables list their rows in this order.
LabelSetRank(ls) ==
    (IF "A" \in ls THEN 1 ELSE 0) + (IF "B" \in ls THEN 2 ELSE 0)
        + (IF neg_val \in ls THEN 4 ELSE 0)
\* Tables with one row per id.
Tables(maxRows) ==
    {t \in UNION {[1..n -> TrainLabelSets] : n \in 0..maxRows} :
        \A i, j \in DOMAIN t : i <= j => LabelSetRank(t[i]) <= LabelSetRank(t[j])}
\* Thresholds in (0, 1): the floats of the MaxBinades binades below 1.
Props ==
    {Halve(<<m, Pow2(FloatBits + e)>>) :
        m \in Pow2(FloatBits - 1)..(Pow2(FloatBits) - 1), e \in 0..(MaxBinades - 1)}

\* Parameter keys: strings over the letters of a class name, "_" and "d".
KeyChars == {"A", "_", "d"}
ParamKeys == UNION {[1..n -> KeyChars] : n \in 1..MaxKeyLen}
\* Parameter dictionaries: lists of distinct keys.
ParamDicts ==
    {d \in UNION {[1..n -> ParamKeys] : n \in 0..MaxKeys} :
        \A i, j \in DOMAIN d : d[i] = d[j] => i = j}

InitBalance ==
    /\ InitLoadIdle
    /\ per_class_optimization = FALSE
    /\ max_train_negs_proportion \in Props
    /\ class_names = <<"A", "B">>
    /\ model_params = <<>>
    /\ features_df = 1..MaxTrainRows
    /\ classifier = NoClassifier
    /\ class_2_classifier = EmptyFn
    /\ fc_train_df \in Tables(MaxTrainRows)
    /\ fc_class_name = "None"
    /\ fc_fit_df = EmptyFn
    /\ fc_first_fit = "none"
    /\ fc_fallback = FALSE
    /\ fc_pc = "start"
    /\ InitRunIdle

SpecBalance == InitBalance /\ [][NextFitCore]_vars

InitPerClass ==
    /\ InitLoadIdle
    /\ per_class_optimization = TRUE
    /\ max_train_negs_proportion = <<1, 2>>
    /\ class_names = <<"A", "B">>
    /\ model_params \in ParamDicts
    /\ features_df \in {1..2, {2}}
    /\ classifier = NoClassifier
    /\ class_2_classifier = EmptyFn
    /\ fc_train_df \in Tables(2) \ {EmptyFn}
    /\ fc_class_name \in {"A", "B"}
    /\ fc_fit_df = EmptyFn
    /\ fc_first_fit = "none"
    /\ fc_fallback = FALSE
    /\ fc_pc = "start"
    /\ InitRunIdle

SpecPerClass == InitPerClass /\ [][NextFitCore]_vars

\* The fit_core call is over.
FcOver == fc_pc \in {"returned", "raised"}

\* C2: when the negative ratio of the training table exceeds the threshold p,
\* the table fitted on has negative ratio at most p (negatives <= p * rows) and
\* holds every positive row of the training table with its label set unchanged.
C2_NegRatioCapped ==
    (FcOver /\ fc_train_df # EmptyFn /\ NeedsCorrection(fc_train_df, max_train_negs_proportion)) =>
        /\ Cardinality(NegIds(fc_fit_df)) * max_train_negs_proportion[2]
              <= max_train_negs_proportion[1] * Cardinality(DOMAIN fc_fit_df)
        /\ \A i \in PosIds(fc_train_df) :
              i \in DOMAIN fc_fit_df /\ fc_fit_df[i] = fc_train_df[i]
        /\ PosIds(fc_fit_df) = PosIds(fc_train_df)

\* C12: when the negative ratio of the training table exceeds the threshold
\* p, the subsample size int(required_negs_count) is at least 0 and less than
\* the number of negative rows, and that many negatives are in the table
\* fitted on.
C12_SampleSizeBelowNegatives ==
    (FcOver /\ fc_train_df # EmptyFn /\ NeedsCorrection(fc_train_df, max_train_negs_proportion)) =>
        LET size == IntTrunc(RequiredNegsCount(fc_train_df, max_train_negs_proportion)) IN
        /\ size >= 0
        /\ size < Cardinality(NegIds(fc_train_df))
        /\ Cardinality(NegIds(fc_fit_df)) = size

\* C8: in global mode the fallback to the one-classifier-per-output wrapper is
\* taken exactly when the first fit attempt ends in the classifier's
\* multi-output rejection; any other failure of the first attempt propagates
\* with no fallback taken.
C8_FallbackOnlyOnRejection ==
    (FcOver /\ ~per_class_optimization /\ fc_first_fit # "none") =>
        /\ fc_fallback <=> (fc_first_fit = "multi_output_rejection")
        /\ fc_first_fit \in {"other_value_error", "other_error"} =>
              (fc_pc = "raised" /\ classifier.kind # "multioutput")

\* The keys of a parameter dictionary that start with the class's prefix, with
\* the prefix cut off: stripped name -> key.
PrefixStripped(params, class_name) ==
    LET prefix == Spell(class_name) \o <<"_">>
        keys == {params[i] : i \in DOMAIN params}
        strip(k) == SubSeq(k, Len(prefix) + 1, Len(k))
    IN  [n \in {strip(k) : k \in {k \in keys : StartsWith(k, prefix)}} |->
            CHOOSE k \in keys : StartsWith(k, prefix) /\ strip(k) = n]

\* C10: in per-class mode fit_core stores a classifier for class c exactly
\* when some parameter key starts with c_ and some training row is positive
\* for c; the classifier gets the c_ keys with the prefix stripped; in every
\* other case nothing is stored and nothing is raised.
C10_StoredIffPrefixedAndPositive ==
    (FcOver /\ per_class_optimization) =>
        LET c == fc_class_name
            hasPrefixed == IsClassPrefixPresent(model_params, c)
            hasPos == YBinary(Merge(fc_fit_df, features_df), c) # {}
            stored == c \in DOMAIN class_2_classifier
        IN  /\ fc_pc = "returned" => (stored <=> (hasPrefixed /\ hasPos))
            /\ stored => class_2_classifier[c].params = PrefixStripped(model_params, c)
            /\ ~(hasPrefixed /\ hasPos) => (~stored /\ fc_pc = "returned")

(***************************************************************************)
(* FeaturesSklearnModel.predict_proba                                      *)
(***************************************************************************)
\* An entry of a probability matrix: 0.0 as np.zeros wrote it, or the
\* probability that a classifier fitted on the rows fit_X gives to the value
\* label (0 or 1) of the indicator of class.
ZeroCell == [kind |-> "zero", class |-> "", label |-> 0, fit_X |-> {}]
Proba(class, label, fit_X) == [kind |-> "proba", class |-> class, label |-> label, fit_X |-> fit_X]

\* self.classifier.predict_proba(test_embs_np) of the global classifier: a
\* matrix (row, output) or a list over the outputs of (row, label value) arrays.
YPredProba(clf, rows, shape) ==
    IF shape = "list"
    THEN [j \in 1..Len(clf.classes) |->
            [i \in rows |-> <<Proba(clf.classes[j], 0, clf.fit_X),
                              Proba(clf.classes[j], 1, clf.fit_X)>>]]
    ELSE [i \in rows |->
            [j \in 1..Len(clf.classes) |-> Proba(clf.classes[j], 1, clf.fit_X)]]

\* A faulty variant of ProbaColumn: the first column of a per-output array is read.
ProbaColumnFirst(y_pred_proba, shape, class_i, i) ==
    IF shape = "list" THEN y_pred_proba[class_i][i][1] ELSE y_pred_proba[i][class_i]

\* y_pred_proba[class_i][:, -1] if isinstance(y_pred_proba, list)
\* else y_pred_proba[:, class_i], at row i
ProbaColumn(y_pred_proba, shape, class_i, i) ==
    IF shape = "list"
    THEN y_pred_proba[class_i][i][Len(y_pred_proba[class_i][i])]
    ELSE y_pred_proba[i][class_i]

\* The result shapes the global classifier can answer with: the wrapper
\* answers with a list, a bare classifier with either.
Shapes(self) ==
    IF ~self.per_class_optimization /\ self.classifier.kind = "plain"
    THEN {"matrix", "list"} ELSE {"list"}

\* The column of class_name in per-class mode: the second column of the
\* stored classifier's answer if class_name in self.class_2_classifier, else
\* what np.zeros wrote.
PerClassColumn(self, class_name) ==
    IF class_name \in DOMAIN self.class_2_classifier
    THEN Proba(self.class_2_classifier[class_name].class, 1,
               self.class_2_classifier[class_name].fit_X)
    ELSE ZeroCell

\* predict_proba(val_df) for a table val_df, the classifier answering in shape.
PredictProba(self, val_df, shape) ==
    LET rows == DOMAIN val_df
        n == Len(self.class_names)
        \* np.stack raises ValueError on no embeddings; an unset
        \* self.classifier raises AttributeError
        raised == \/ self.features_df = {}
                  \/ rows = {}
                  \/ ~self.per_class_optimization /\ self.classifier.kind = "unset"
                  \/ ~self.per_class_optimization /\ Len(self.classifier.classes) < n
        y_pred_proba == YPredProba(self.classifier, rows, shape)
    IN  [raised |-> raised,
         val_proba_np |->
            IF raised THEN EmptyFn
            ELSE [i \in rows |-> [class_i \in 1..n |->
                    IF ~self.per_class_optimization
                    THEN ProbaColumn(y_pred_proba, shape, class_i, i)
                    ELSE PerClassColumn(self, self.class_names[class_i])]]]

(***************************************************************************)
(* run_experiment                                                          *)
(***************************************************************************)
NumFolds == 2
MaxIds == 3
MaxRows == 3

\* get_folds(split_desc): the fold indices 0 .. K-1, in order.
GetFolds == [i \in 1..NumFolds |-> i - 1]

\* f"fold_{i}"
FoldName(i) == <<"fold_", i>>

\* A faulty variant of TrnFolds: the test fold is not left out.
TrnFoldsAll(test_fold) == {FoldName(i) : i \in 0..(Len(GetFolds) - 1)}

\* trn_folds = [f"fold_{i}" for i in range(len(get_folds(...))) if i != test_fold]
TrnFolds(test_fold) == {FoldName(i) : i \in {j \in 0..(Len(GetFolds) - 1) : j # test_fold}}

\* tps_df[tps_df[split_col_name].isin(set(trn_folds))]
TrnPartition(df, test_fold) == {r \in df : r.fold \in TrnFolds(test_fold)}
\* tps_df[tps_df[split_col_name] == f"fold_{test_fold}"]
TestPartition(df, test_fold) == {r \in df : r.fold = FoldName(test_fold)}

\* df.loc[df[f"{split_col_name}_ignore_in_eval"] == 1, target_col_name] = "other"
OverrideIgnored(rows) ==
    {[r EXCEPT !.label = IF r.ignore = 1 THEN "other" ELSE r.label] : r \in rows}

\* df.groupby(id_col_name)[target_col_name].agg(set).reset_index()
Aggregate(rows) ==
    [i \in {r.id : r \in rows} |-> {r.label : r \in {q \in rows : q.id = i}}]

\* A faulty variant of Normalize: the umbrella label is added to every row.
NormalizeAlways(x) == x \cup {"is_TPS"}

\* lambda x: x if len(x.intersection({"Unknown", "precursor substr"}))
\*           else x.union({"is_TPS"})
Normalize(x) ==
    IF Cardinality(x \cap {"Unknown", "precursor substr"}) # 0 THEN x ELSE x \cup {"is_TPS"}

\* df[target_col_name].map(...)
NormalizeTable(df) == [i \in DOMAIN df |-> Normalize(df[i])]

\* The aggregated and normalized partitions of a fold.
TrnTable(df, test_fold) ==
    NormalizeTable(Aggregate(OverrideIgnored(TrnPartition(df, test_fold))))
TestTable(df, test_fold) ==
    NormalizeTable(Aggregate(OverrideIgnored(TestPartition(df, test_fold))))

\* A faulty variant of ArtifactName: one file name for every fold.
ArtifactNameFixed(test_fold) == <<"fold_", 0, "_results.pkl">>

\* f"fold_{test_fold}_results.pkl"
ArtifactName(test_fold) == <<"fold_", test_fold, "_results.pkl">>

\* f"model_fold_{self.config.experiment_info.fold}.pkl"
ModelFileName(f) == <<"model_fold_", f, ".pkl">>

\* model.fit(trn_df): one fit_core call in global mode, one per class name in
\* per-class mode, up to the first that raises; chs[k] are the choices of call k.
RECURSIVE FitClasses(_, _, _, _)
FitClasses(self, train_df, chs, k) ==
    LET class_name == self.class_names[k]
        r == FitCore(self, train_df, class_name, chs[k])
        after == [self EXCEPT !.classifier = r.classifier,
                              !.class_2_classifier = r.class_2_classifier,
                              !.class_names = r.class_names]
        here == [raised |-> r.raised, self |-> after, fit_df |-> r.fit_df,
                 first_fit |-> r.first_fit, fallback |-> r.fallback,
                 class_name |-> class_name]
    IN  IF r.raised \/ k >= Len(self.class_names) THEN here
        ELSE FitClasses(after, train_df, chs, k + 1)

Fit(self, train_df, chs) ==
    IF self.per_class_optimization /\ Len(self.class_names) > 0
    THEN FitClasses(self, train_df, chs, 1)
    ELSE LET r == FitCore(self, train_df, "None", chs[1])
         IN  [raised |-> r.raised,
              self |-> [self EXCEPT !.classifier = r.classifier,
                                    !.class_2_classifier = r.class_2_classifier,
                                    !.class_names = r.class_names],
              fit_df |-> r.fit_df, first_fit |-> r.first_fit,
              fallback |-> r.fallback, class_name |-> "None"]

\* The number of fit_core calls of one model.fit.
FitCalls(self) ==
    IF self.per_class_optimization /\ Len(self.class_names) > 0
    THEN Len(self.class_names) ELSE 1

\* A statement of the loop body either completes or raises.
StepOutcomes == {"ok", "raised"}

\* After the last statement of the loop body: the next fold, or the end.
NextFoldPc == IF fold_pos + 1 > Len(GetFolds) THEN "done" ELSE "select"

\* A faulty variant of PcAfter: an exception in a fold is swallowed and the loop goes on.
PcAfterSwallow(step, raised) ==
    IF raised THEN NextFoldPc
    ELSE CASE step = "select" -> "fit"
           [] step = "fit" -> IF save_trained_model THEN "save" ELSE "score"
           [] step = "save" -> "score"
           [] step = "score" -> "persist"
           [] OTHER -> NextFoldPc

\* A faulty variant of PcAfter: the model is saved whatever the configuration says.
PcAfterSaveAlways(step, raised) ==
    IF raised THEN "error"
    ELSE CASE step = "select" -> "fit"
           [] step = "fit" -> "save"
           [] step = "save" -> "score"
           [] step = "score" -> "persist"
           [] OTHER -> NextFoldPc

\* Where run_experiment is after a step of the loop body: nothing in it
\* catches an exception, so a step that raises ends the run.
PcAfter(step, raised) ==
    IF raised THEN "error"
    ELSE CASE step = "select" -> "fit"
           [] step = "fit" -> IF save_trained_model THEN "save" ELSE "score"
           [] step = "save" -> "score"
           [] step = "score" -> "persist"
           [] OTHER -> NextFoldPc

\* The loop variable moves on when the body is left for the next iteration.
FoldPosAfter(step, raised) ==
    IF PcAfter(step, raised) \in {"select", "done"} THEN fold_pos + 1 ELSE fold_pos

configVars == <<per_class_optimization, max_train_negs_proportion, model_params, features_df>>

\* Lines 96-138: the fold is selected, the dataset partitioned, the ignored
\* rows relabelled, the rows aggregated by id and the label sets normalized.
SelectFold ==
    /\ pc = "select"
    /\ \E outcome \in StepOutcomes :
          LET test_fold == GetFolds[fold_pos] IN
          /\ fold' = test_fold
          /\ trn_df' = IF outcome = "ok" THEN TrnTable(tps_df, test_fold) ELSE trn_df
          /\ test_df' = IF outcome = "ok" THEN TestTable(tps_df, test_fold) ELSE test_df
          /\ pc' = PcAfter("select", outcome # "ok")
          /\ fold_pos' = FoldPosAfter("select", outcome # "ok")
          /\ log' = Append(log, <<test_fold, "select", outcome>>)
    /\ UNCHANGED <<loadVars, modelVars, fcVars, tps_df, save_trained_model,
                   val_proba_np, artifacts, saved_models>>

\* Line 141: model.fit(trn_df)
FitModel ==
    /\ pc = "fit"
    /\ \E chs \in [1..FitCalls(Self) -> Choices(Self, trn_df)] :
          \E r \in {Fit(Self, trn_df, chs)} :
          /\ classifier' = r.self.classifier
          /\ class_2_classifier' = r.self.class_2_classifier
          /\ class_names' = r.self.class_names
          /\ fc_train_df' = trn_df
          /\ fc_class_name' = r.class_name
          /\ fc_fit_df' = r.fit_df
          /\ fc_first_fit' = r.first_fit
          /\ fc_fallback' = r.fallback
          /\ fc_pc' = IF r.raised THEN "raised" ELSE "returned"
          /\ pc' = PcAfter("fit", r.raised)
          /\ fold_pos' = FoldPosAfter("fit", r.raised)
          /\ log' = Append(log, <<fold, "fit", IF r.raised THEN "raised" ELSE "ok">>)
    /\ UNCHANGED <<loadVars, configVars, tps_df, save_trained_model, fold, trn_df,
                   test_df, val_proba_np, artifacts, saved_models>>

\* Lines 148-149: if save_trained_model: model.save()
SaveModel ==
    /\ pc = "save"
    /\ \E outcome \in StepOutcomes :
          /\ saved_models' = IF outcome = "ok"
                             THEN saved_models \cup {ModelFileName(fold)}
                             ELSE saved_models
          /\ pc' = PcAfter("save", outcome # "ok")
          /\ fold_pos' = FoldPosAfter("save", outcome # "ok")
          /\ log' = Append(log, <<fold, "save", outcome>>)
    /\ UNCHANGED <<loadVars, modelVars, fcVars, tps_df, save_trained_model, fold,
                   trn_df, test_df, val_proba_np, artifacts>>

\* Line 151: val_proba_np = model.predict_proba(test_df)
Score ==
    /\ pc = "score"
    /\ \E shape \in Shapes(Self), outcome \in StepOutcomes :
          LET r == PredictProba(Self, test_df, shape)
              raised == r.raised \/ outcome # "ok"
          IN  /\ val_proba_np' = IF raised THEN val_proba_np ELSE r.val_proba_np
              /\ pc' = PcAfter("score", raised)
              /\ fold_pos' = FoldPosAfter("score", raised)
              /\ log' = Append(log, <<fold, "score", IF raised THEN "raised" ELSE "ok">>)
    /\ UNCHANGED <<loadVars, modelVars, fcVars, tps_df, save_trained_model, fold,
                   trn_df, test_df, artifacts, saved_models>>

\* Lines 152-155: pickle.dump((val_proba_np, model.config.class_names, test_df), file)
Persist ==
    /\ pc = "persist"
    /\ \E outcome \in StepOutcomes :
          LET name == ArtifactName(fold)
              triple == [val_proba_np |-> val_proba_np,
                         class_names |-> class_names,
                         test_df |-> test_df]
          IN  /\ artifacts' =
                    IF outcome = "ok"
                    THEN [n \in (DOMAIN artifacts) \cup {name} |->
                             IF n = name THEN triple ELSE artifacts[n]]
                    ELSE artifacts
              /\ pc' = PcAfter("persist", outcome # "ok")
              /\ fold_pos' = FoldPosAfter("persist", outcome # "ok")
              /\ log' = Append(log, <<fold, "persist", outcome>>)
    /\ UNCHANGED <<loadVars, modelVars, fcVars, tps_df, save_trained_model, fold,
                   trn_df, test_df, val_proba_np, saved_models>>

Next == SelectFold \/ FitModel \/ SaveModel \/ Score \/ Persist

\* config.class_names as configured, before any fit.
ConfiguredClassNames == <<"A", "B">>

\* The parameter dictionary of the run: one key per class.
RunParams == << <<"A", "_", "d">>, <<"B", "_", "d">> >>

\* The raw rows of an id: a label and the ignore-in-eval flag.  A flagged row
\* is relabelled "other" whatever its label was, so one flagged kind is enough.
RowKinds == {<<"A", 0>>, <<neg_val, 0>>, <<"A", 1>>}
AllRows(split) ==
    {[id |-> i, label |-> k[1], fold |-> FoldName(split[i]), ignore |-> k[2]] :
        i \in DOMAIN split, k \in RowKinds}
\* The ways to put the ids 1..m into folds; the run does not look at the ids
\* themselves, so the folds are listed in the order of the ids.
Splits(m) ==
    {split \in [1..m -> {GetFolds[k] : k \in DOMAIN GetFolds}] :
        \A i, j \in 1..m : i <= j => split[i] <= split[j]}
\* The datasets: at most MaxRows rows over the ids 1..m, every id in one fold.
Datasets ==
    UNION { UNION { {d \in SUBSET AllRows(split) :
                        /\ Cardinality(d) <= MaxRows
                        /\ {r.id : r \in d} = 1..m}
                    : split \in Splits(m) }
            : m \in 1..MaxIds }

\* config_dict as BaseConfig.load returned it (line 59), as far as the run
\* reads it here: the config object has the attribute save_trained_model
\* exactly when the dictionary has the key.
RunConfigs ==
    {EmptyFn} \cup {[k \in {"save_trained_model"} |-> b] : b \in BOOLEAN}

\* Lines 84-87: config.save_trained_model, False on AttributeError.
SaveTrainedModel(config) ==
    IF "save_trained_model" \in DOMAIN config THEN config["save_trained_model"] ELSE FALSE

\* The state when the loop over the folds starts (line 89).
Init ==
    /\ primary_doc = EmptyFn
    /\ included_file = NoFile
    /\ configs_dict \in RunConfigs
    /\ load_pc = "idle"
    /\ InitFcIdle
    /\ per_class_optimization \in BOOLEAN
    /\ max_train_negs_proportion = <<1, 2>>
    /\ class_names = ConfiguredClassNames
    /\ model_params = RunParams
    /\ features_df = 1..MaxIds
    /\ classifier = NoClassifier
    /\ class_2_classifier = EmptyFn
    /\ tps_df \in Datasets
    /\ save_trained_model = SaveTrainedModel(configs_dict)
    /\ pc = "select"
    /\ fold_pos = 1
    /\ fold = all_folds
    /\ trn_df = EmptyFn
    /\ test_df = EmptyFn
    /\ val_proba_np = EmptyFn
    /\ artifacts = EmptyFn
    /\ saved_models = {}
    /\ log = <<>>

Spec == Init /\ [][Next]_vars

(***************************************************************************)
(* Properties of run_experiment                                            *)
(***************************************************************************)
\* A fold is selected and partitioned, and the run has not left it.
InFold == pc \in {"fit", "save", "score", "persist"}
Folds == {GetFolds[k] : k \in DOMAIN GetFolds}
IdsOf(rows) == {r.id : r \in rows}

C3_NoPositivesPredictZero ==
    (per_class_optimization /\ pc = "persist") =>
        \A k \in DOMAIN class_names :
            (\A i \in DOMAIN trn_df : class_names[k] \notin trn_df[i]) =>
                \A i \in DOMAIN val_proba_np : val_proba_np[i][k] = ZeroCell

\* The label set of id in the rows, as aggregated before the normalization.
LabelsBefore(rows, i) ==
    {IF r.ignore = 1 THEN "other" ELSE r.label : r \in {q \in rows : q.id = i}}
\* What the normalization is to make of a label set.
NormalizedAsClaimed(before, after) ==
    IF before \cap {"Unknown", "precursor substr"} # {}
    THEN after = before
    ELSE after = before \cup {"is_TPS"}

\* C4: in every fold, in both partitions, a row whose label set meets
\* {"Unknown", "precursor substr"} keeps its label set, and any other row has
\* its label set plus "is_TPS".
C4_LabelNormalization ==
    InFold =>
        /\ \A i \in DOMAIN trn_df :
              NormalizedAsClaimed(
                  LabelsBefore({r \in tps_df : r.fold # FoldName(fold)}, i), trn_df[i])
        /\ \A i \in DOMAIN test_df :
              NormalizedAsClaimed(
                  LabelsBefore({r \in tps_df : r.fold = FoldName(fold)}, i), test_df[i])

\* A fold with a row of each kind: one left alone, one that got the umbrella label.
C4_Witness ==
    /\ InFold
    /\ \E i \in DOMAIN trn_df : "Unknown" \in trn_df[i] /\ "is_TPS" \notin trn_df[i]
    /\ \E i \in DOMAIN test_df : "is_TPS" \in test_df[i] /\ test_df[i] # {"is_TPS"}

\* C6: a run that ends without a failure leaves exactly one artifact per fold,
\* each the triple of its own fold: the fold's test table, the class names
\* and a matrix with one row per test id and one column per class name.
C6_OneArtifactPerFold ==
    pc = "done" =>
        /\ DOMAIN artifacts = {ArtifactName(f) : f \in Folds}
        /\ Cardinality(DOMAIN artifacts) = Len(GetFolds)
        /\ \A f \in Folds :
              LET a == artifacts[ArtifactName(f)] IN
              /\ DOMAIN a.test_df = IdsOf({r \in tps_df : r.fold = FoldName(f)})
              /\ DOMAIN a.val_proba_np = DOMAIN a.test_df
              /\ \A i \in DOMAIN a.val_proba_np :
                    DOMAIN a.val_proba_np[i] = 1..Len(a.class_names)

\* A finished run whose first fold has two test ids.
C6_Witness ==
    /\ pc = "done"
    /\ Cardinality(DOMAIN artifacts[ArtifactName(GetFolds[1])].val_proba_np) = 2
    /\ DOMAIN artifacts[ArtifactName(GetFolds[2])].val_proba_np # {}

\* C7: a step that raises is the last step of the run: the run is in error,
\* the failed fold has no artifact, every step executed belongs to the failed
\* fold or an earlier one, and no step of a fold is executed twice.
C7_FailureEndsRun ==
    /\ \A j \in DOMAIN log :
          log[j][3] = "raised" =>
              /\ j = Len(log)
              /\ pc = "error"
              /\ ArtifactName(log[j][1]) \notin DOMAIN artifacts
              /\ \A f \in Folds : f > log[j][1] => ArtifactName(f) \notin DOMAIN artifacts
              /\ \A h \in DOMAIN log : log[h][1] <= log[j][1]
    /\ \A j, h \in DOMAIN log :
          (log[j][1] = log[h][1] /\ log[j][2] = log[h][2]) => j = h
    /\ pc = "error" => (log # <<>> /\ log[Len(log)][3] = "raised")

\* A run that failed in its first fold, after the fold was partitioned.
C7_Witness ==
    /\ pc = "error"
    /\ Len(log) >= 2
    /\ log[Len(log)][1] = GetFolds[1]
    /\ Len(GetFolds) > 1

IsPermutation(s, t) ==
    /\ Len(s) = Len(t)
    /\ \E f \in [DOMAIN s -> DOMAIN t] :
          /\ \A j, h \in DOMAIN s : f[j] = f[h] => j = h
          /\ \A j \in DOMAIN s : s[j] = t[f[j]]

SaveEnabled ==
    "save_trained_model" \in DOMAIN configs_dict /\ configs_dict["save_trained_model"]

\* The position of a fold in get_folds(...).
PosOf(f) == CHOOSE k \in DOMAIN GetFolds : GetFolds[k] = f

\* The step that is to follow a step within a fold.
StepAfter(step) ==
    CASE step = "select" -> "fit"
      [] step = "fit" -> IF SaveEnabled THEN "save" ELSE "score"
      [] step = "save" -> "score"
      [] step = "score" -> "persist"
      [] OTHER -> "none"

\* The folds whose step has completed.
FoldsWith(step) == {log[j][1] : j \in {h \in DOMAIN log : log[h][2] = step /\ log[h][3] = "ok"}}

\* C11: the run starts with the first fold; within a fold the steps are
\* select, fit, save (exactly when the configuration enables it, never when
\* the key is absent), score, persist, each started only when the one before
\* it completed; a fold is selected only right after the artifact of the fold
\* before it was persisted; experiment_info.fold is the fold of the step in
\* progress; the artifacts and the saved models on disk are those of the
\* folds whose persist and save completed; and from the fit of a fold on,
\* through the writing of its artifact, the model's last fit is the one on
\* that fold's training partition.
C11_FoldStepOrder ==
    /\ log # <<>> =>
          /\ log[1][1] = GetFolds[1]
          /\ log[1][2] = "select"
          /\ fold = log[Len(log)][1]
    /\ \A j \in 1..(Len(log) - 1) :
          /\ log[j][3] = "ok"
          /\ IF log[j][2] = "persist"
             THEN /\ log[j + 1][2] = "select"
                  /\ PosOf(log[j + 1][1]) = PosOf(log[j][1]) + 1
             ELSE /\ log[j + 1][1] = log[j][1]
                  /\ log[j + 1][2] = StepAfter(log[j][2])
    /\ \A j \in DOMAIN log :
          /\ (log[j][2] = "save") => SaveEnabled
          /\ (log[j][2] = "persist" /\ log[j][3] = "ok") =>
                \E h \in 1..(j - 1) : log[h] = <<log[j][1], "fit", "ok">>
          /\ (log[j][2] = "select" /\ PosOf(log[j][1]) > 1) =>
                /\ j > 1
                /\ log[j - 1] = <<GetFolds[PosOf(log[j][1]) - 1], "persist", "ok">>
                /\ ArtifactName(GetFolds[PosOf(log[j][1]) - 1]) \in DOMAIN artifacts
    /\ "save_trained_model" \notin DOMAIN configs_dict => saved_models = {}
    /\ saved_models = {ModelFileName(f) : f \in FoldsWith("save")}
    /\ DOMAIN artifacts = {ArtifactName(f) : f \in FoldsWith("persist")}
    /\ (log # <<>> /\ \/ log[Len(log)][2] \in {"save", "score", "persist"}
                      \/ log[Len(log)][2] = "fit" /\ log[Len(log)][3] = "ok") =>
          /\ fc_train_df = trn_df
          /\ DOMAIN trn_df = IdsOf({r \in tps_df : r.fold # FoldName(log[Len(log)][1])})
    /\ pc = "done" =>
          /\ Len(log) = Len(GetFolds) * (IF SaveEnabled THEN 5 ELSE 4)
          /\ log[Len(log)] = <<GetFolds[Len(GetFolds)], "persist", "ok">>

\* A finished run with the saving enabled: every fold left a model and an artifact.
C11_Witness ==
    /\ pc = "done"
    /\ SaveEnabled
    /\ Cardinality(saved_models) = Len(GetFolds)
    /\ Cardinality(DOMAIN artifacts) = Len(GetFolds)
    /\ Len(GetFolds) > 1

====
